---- MODULE Spec2Model ----
(***************************************************************************)
(* A model of graph.DriveItem (src/logger/logger.go, package graph): the   *)
(* in-memory content buffer of a file item with its reader/writer lock,    *)
(* the flush -> upload dispatch, FetchContent, identity resolution (ID),   *)
(* the children cache (GetChildren / NLink), path computation (Path,       *)
(* NewDriveItem, SetName, setParent) and the lock skeleton of the methods. *)
(*                                                                         *)
(* A Go slice is modelled by its backing array (a sequence whose length is *)
(* the capacity) and its length: s[:k] is legal up to the capacity and     *)
(* re-exposes whatever the array holds, and a slice expression out of      *)
(* range panics.  A panic is not recovered anywhere in the package, so it  *)
(* ends the process: every action is disabled once `panicked` is set.      *)
(***************************************************************************)
EXTENDS Integers, Sequences, FiniteSets, TLC

\* ----------------------------------------------------------------- bounds
NThreads == 2      \* concurrent call-ins from the filesystem host
MaxByte == 1       \* data bytes are 1..MaxByte; 0 is the zero byte
MaxData == 1       \* longest data / read buffer of one call
MaxOff == 1        \* largest offset / truncate size of one call
MaxUploads == 1    \* uploads in flight at once
MaxBody == 2       \* longest content FetchContent downloads

\* ------------------------------------------------------------ the state
\* the file item whose content is read, written and flushed
VARIABLES
  data,          \* backing array of *d.data (Len(data) is the capacity)
  dataNil,       \* d.data is nil (an item decoded from a listing, nothing fetched)
  dataLen,       \* len(*d.data)
  SizeInternal,  \* d.SizeInternal
  hasChanges,    \* d.hasChanges
  mutex,         \* d.mutex: [writer |-> thread or 0, readers |-> set of threads]
  pc,            \* position of each thread in its current call
  frame,         \* arguments, locals and result of each thread's call
  panicked,      \* "" or the name of the method whose panic ended the process
  uploading,     \* uploads dispatched by Flush and not yet finished
  pendingWrite,  \* history: a Write/Truncate completed since the last dispatch
  prior          \* history: the content when the current exclusive holder locked

bufVars == <<data, dataNil, dataLen, SizeInternal, hasChanges, mutex, pc, frame,
             panicked, uploading, pendingWrite, prior>>

\* the tree of items whose paths are computed
VARIABLES
  tree           \* the items: tree[x] = [exists, NameInternal, ParentPath, parent]

pathVars == <<tree>>

\* the item whose identifier is resolved, and the remote service
VARIABLES
  item,          \* [NameInternal, ParentPath, IDInternal, isDir, underRoot]
  remote,        \* identifier of the remote item of that name, or ""
  ipc,           \* position of each thread in ID()
  iframe,        \* locals and result of each thread's ID()
  calls,         \* calls each thread has started
  putsIssued,    \* history: placeholder uploads issued
  failures,      \* history: kinds of transport failure seen so far
  overlap,       \* history: a call started while another was in progress
  preExisting    \* history: the remote item existed before any call

idVars == <<item, remote, ipc, iframe, calls, putsIssued, failures, overlap, preExisting>>

\* the directory whose children are listed
VARIABLES
  dirIsDir,      \* d.IsDir() of the item GetChildren is called on
  children,      \* d.children: [nil |-> BOOLEAN, map |-> set of [key, name, dir]]
  subdir,        \* d.subdir
  chMutex,       \* d.mutex
  cpc,           \* position of each thread in GetChildren / NLink
  cframe,        \* locals and result of each thread's call
  ccalls,        \* calls each thread has started
  listRequests,  \* history: listing requests issued to the transport
  listFailed     \* history: a listing request failed

chVars == <<dirIsDir, children, subdir, chMutex, cpc, cframe, ccalls, listRequests,
            listFailed>>

\* the locks of the items of one tree, and who holds them
VARIABLES
  locks,         \* locks[x] = d.mutex of item x: [writer, readers]
  lpc,           \* position of each thread in its current call
  lframe         \* that call: [op, d (the receiver), np (the other item)]

lockVars == <<locks, lpc, lframe>>

notBuf == <<pathVars, idVars, chVars, lockVars>>
notPath == <<bufVars, idVars, chVars, lockVars>>
notID == <<bufVars, pathVars, chVars, lockVars>>
notCh == <<bufVars, pathVars, idVars, lockVars>>
notLock == <<bufVars, pathVars, idVars, chVars>>

Threads == 1..NThreads
Bytes == 1..MaxByte
Offsets == (-1)..MaxOff
Sizes == 0..MaxOff

RECURSIVE SeqsUpTo(_, _)
SeqsUpTo(S, n) ==
  IF n = 0 THEN {<<>>}
  ELSE LET shorter == SeqsUpTo(S, n - 1)
       IN  shorter \cup {Append(s, x) : s \in {q \in shorter : Len(q) = n - 1}, x \in S}

DataArgs == SeqsUpTo(Bytes, MaxData)

Min(a, b) == IF a < b THEN a ELSE b

\* ------------------------------------------------------- the file item
NoFrame == [op |-> "", data |-> <<>>, off |-> 0, n |-> 0, ret |-> <<>>,
            status |-> "", saw |-> FALSE, sent |-> 0]

\* the bytes of the slice: data[:dataLen]
Content == SubSeq(data, 1, dataLen)

\* sync.RWMutex
CanLock == mutex.writer = 0 /\ mutex.readers = {}
CanRLock == mutex.writer = 0
Locked(t) == [mutex EXCEPT !.writer = t]
RLocked(t) == [mutex EXCEPT !.readers = @ \cup {t}]
Unlocked(t) == [writer |-> IF mutex.writer = t THEN 0 ELSE mutex.writer,
                readers |-> mutex.readers \ {t}]

\* The item as constructed: by NewDriveItem (an empty buffer, no declared
\* size), or decoded from a listing (no buffer: d.data is nil, and the size
\* the remote service declares).  Not dirty.
InitBufWith(listed, size) ==
  /\ data = <<>>
  /\ dataNil = listed
  /\ dataLen = 0
  /\ SizeInternal = size
  /\ hasChanges = FALSE
  /\ mutex = [writer |-> 0, readers |-> {}]
  /\ pc = [t \in Threads |-> "idle"]
  /\ frame = [t \in Threads |-> NoFrame]
  /\ panicked = ""
  /\ uploading = 0
  /\ pendingWrite = FALSE
  /\ prior = <<>>

\* NewDriveItem
InitBuf == InitBufWith(FALSE, 0)

\* ---------------------------------------------------------------- slices
\* s[lo:hi] on a slice with backing array arr: legal iff 0 <= lo <= hi <= cap
SliceOK(arr, lo, hi) == 0 <= lo /\ lo <= hi /\ hi <= Len(arr)

\* append(arr[:off], d...): in place when the capacity suffices, else a new
\* array of capacity newCap >= off + Len(d), zero beyond the appended bytes
AppendAt(arr, off, d, newCap) ==
  LET need == off + Len(d)
  IN  IF need <= Len(arr)
      THEN [i \in 1..Len(arr) |->
              IF i > off /\ i <= need THEN d[i - off] ELSE arr[i]]
      ELSE [i \in 1..newCap |->
              IF i <= off THEN arr[i]
              ELSE IF i <= need THEN d[i - off] ELSE 0]

\* copy(arr[off:len], d): copies min(len - off, Len(d)) bytes
CopyAt(arr, len, off, d) ==
  [i \in 1..Len(arr) |->
     IF i > off /\ i <= Min(len, off + Len(d)) THEN d[i - off] ELSE arr[i]]

\* the capacities Go's append may give a grown slice (growslice rounds up)
GrownCaps(need) == need..(need + 1)

\* -------------------------------------------------------------- Read
\* DriveItem.Read: end clamped to the length, then (*d.data)[off:end]
ReadResult(arr, len, off, n) ==
  LET end == IF off + n > len THEN len ELSE off + n
  IN  IF SliceOK(arr, off, end)
      THEN [panic |-> FALSE, bytes |-> SubSeq(arr, off + 1, end), status |-> "OK"]
      ELSE [panic |-> TRUE, bytes |-> <<>>, status |-> ""]

\* (the arguments do not act before the slice expression: they are drawn there)
ReadLock(t) ==
  /\ panicked = "" /\ pc[t] = "idle" /\ CanRLock
  /\ mutex' = RLocked(t)
  /\ pc' = [pc EXCEPT ![t] = "R_body"]
  /\ frame' = [frame EXCEPT ![t] = [NoFrame EXCEPT !.op = "Read"]]
  /\ UNCHANGED <<data, dataNil, dataLen, SizeInternal, hasChanges, panicked, uploading,
                 pendingWrite, prior>>
  /\ UNCHANGED notBuf

ReadBody(t, n, off) ==
  /\ panicked = "" /\ pc[t] = "R_body"
  /\ LET r == ReadResult(data, dataLen, off, n)
     IN  IF dataNil \/ r.panic
         THEN /\ panicked' = "Read"
              /\ mutex' = Unlocked(t)
              /\ pc' = [pc EXCEPT ![t] = "panic"]
              /\ UNCHANGED frame
         ELSE /\ frame' = [frame EXCEPT ![t].n = Len(r.bytes), ![t].status = r.status]
              /\ pc' = [pc EXCEPT ![t] = "R_unlock"]
              /\ UNCHANGED <<panicked, mutex>>
  /\ UNCHANGED <<data, dataNil, dataLen, SizeInternal, hasChanges, uploading, pendingWrite, prior>>
  /\ UNCHANGED notBuf

\* -------------------------------------------------------------- Write
WriteLock(t, d, off) ==
  /\ panicked = "" /\ pc[t] = "idle" /\ CanLock
  /\ mutex' = Locked(t)
  /\ pc' = [pc EXCEPT ![t] = "W_body"]
  /\ frame' = [frame EXCEPT ![t] = [NoFrame EXCEPT !.op = "Write", !.data = d,
                                                   !.off = off, !.n = Len(d)]]
  /\ prior' = Content
  /\ UNCHANGED <<data, dataNil, dataLen, SizeInternal, hasChanges, panicked, uploading,
                 pendingWrite>>
  /\ UNCHANGED notBuf

\* d.hasChanges = true, at the end of Write and of Truncate
DirtyKept == hasChanges
DirtyAfterChange == TRUE

\* the branch of Write: append when offset+nWrite > int(SizeInternal)-1
WriteAppends(off, n) == off + n > SizeInternal - 1

WritePanics(off, n) ==
  \/ dataNil
  \/ IF WriteAppends(off, n) THEN ~SliceOK(data, 0, off)
                             ELSE ~SliceOK(data, off, dataLen)

WriteBody(t) ==
  /\ panicked = "" /\ pc[t] = "W_body"
  /\ LET d == frame[t].data
         off == frame[t].off
     IN  IF WritePanics(off, Len(d))
         THEN /\ panicked' = "Write"
              /\ mutex' = Unlocked(t)
              /\ pc' = [pc EXCEPT ![t] = "panic"]
              /\ UNCHANGED <<data, dataNil, dataLen, SizeInternal, hasChanges, frame, pendingWrite>>
         ELSE /\ IF WriteAppends(off, Len(d))
                 THEN /\ \E c \in GrownCaps(off + Len(d)) : data' = AppendAt(data, off, d, c)
                      /\ dataLen' = off + Len(d)
                 ELSE /\ data' = CopyAt(data, dataLen, off, d)
                      /\ dataLen' = dataLen
              /\ SizeInternal' = dataLen'
              /\ hasChanges' = DirtyAfterChange
              /\ pendingWrite' = TRUE
              /\ frame' = [frame EXCEPT ![t].ret = <<Len(d)>>, ![t].status = "OK"]
              /\ pc' = [pc EXCEPT ![t] = "W_unlock"]
              /\ UNCHANGED <<panicked, mutex>>
  /\ UNCHANGED <<dataNil, uploading, prior>>
  /\ UNCHANGED notBuf

\* ----------------------------------------------------------- Truncate
TruncateLock(t, size) ==
  /\ panicked = "" /\ pc[t] = "idle" /\ CanLock
  /\ mutex' = Locked(t)
  /\ pc' = [pc EXCEPT ![t] = "T_body"]
  /\ frame' = [frame EXCEPT ![t] = [NoFrame EXCEPT !.op = "Truncate", !.n = size]]
  /\ prior' = Content
  /\ UNCHANGED <<data, dataNil, dataLen, SizeInternal, hasChanges, panicked, uploading,
                 pendingWrite>>
  /\ UNCHANGED notBuf

\* d.SizeInternal = size
TruncatedSizeStale(size) == SizeInternal
TruncatedSize(size) == size

TruncateBody(t) ==
  /\ panicked = "" /\ pc[t] = "T_body"
  /\ IF dataNil \/ ~SliceOK(data, 0, frame[t].n)
     THEN /\ panicked' = "Truncate"
          /\ mutex' = Unlocked(t)
          /\ pc' = [pc EXCEPT ![t] = "panic"]
          /\ UNCHANGED <<dataLen, SizeInternal, hasChanges, frame, pendingWrite>>
     ELSE /\ dataLen' = frame[t].n
          /\ SizeInternal' = TruncatedSize(frame[t].n)
          /\ hasChanges' = DirtyAfterChange
          /\ pendingWrite' = TRUE
          /\ frame' = [frame EXCEPT ![t].status = "OK"]
          /\ pc' = [pc EXCEPT ![t] = "T_unlock"]
          /\ UNCHANGED <<panicked, mutex>>
  /\ UNCHANGED <<data, dataNil, uploading, prior>>
  /\ UNCHANGED notBuf

\* -------------------------------------------------------------- Flush
FlushLock(t) ==
  /\ panicked = "" /\ pc[t] = "idle" /\ CanLock
  /\ uploading + Cardinality({u \in Threads : frame[u].op = "Flush"}) < MaxUploads
  /\ mutex' = Locked(t)
  /\ pc' = [pc EXCEPT ![t] = "F_check"]
  /\ frame' = [frame EXCEPT ![t] = [NoFrame EXCEPT !.op = "Flush"]]
  /\ prior' = Content
  /\ UNCHANGED <<data, dataNil, dataLen, SizeInternal, hasChanges, panicked, uploading,
                 pendingWrite>>
  /\ UNCHANGED notBuf

\* if d.hasChanges { ... }
FlushAlways(dirty) == "F_clear"
FlushBranch(dirty) == IF dirty THEN "F_clear" ELSE "F_unlock"

FlushCheck(t) ==
  /\ panicked = "" /\ pc[t] = "F_check"
  /\ frame' = [frame EXCEPT ![t].saw = hasChanges, ![t].status = "OK"]
  /\ pc' = [pc EXCEPT ![t] = FlushBranch(hasChanges)]
  /\ UNCHANGED <<data, dataNil, dataLen, SizeInternal, hasChanges, mutex, panicked, uploading,
                 pendingWrite, prior>>
  /\ UNCHANGED notBuf

\* d.hasChanges = false
FlushClear(t) ==
  /\ panicked = "" /\ pc[t] = "F_clear"
  /\ hasChanges' = FALSE
  /\ pc' = [pc EXCEPT ![t] = "F_dispatch"]
  /\ UNCHANGED <<data, dataNil, dataLen, SizeInternal, mutex, frame, panicked, uploading,
                 pendingWrite, prior>>
  /\ UNCHANGED notBuf

\* go d.Upload(auth)
FlushDispatch(t) ==
  /\ panicked = "" /\ pc[t] = "F_dispatch"
  /\ uploading' = uploading + 1
  /\ pendingWrite' = FALSE
  /\ frame' = [frame EXCEPT ![t].sent = @ + 1]
  /\ pc' = [pc EXCEPT ![t] = "F_unlock"]
  /\ UNCHANGED <<data, dataNil, dataLen, SizeInternal, hasChanges, mutex, panicked, prior>>
  /\ UNCHANGED notBuf

\* the upload subsystem finishes an upload, at its own pace
UploadDone ==
  /\ panicked = "" /\ uploading > 0
  /\ uploading' = uploading - 1
  /\ UNCHANGED <<data, dataNil, dataLen, SizeInternal, hasChanges, mutex, pc, frame, panicked,
                 pendingWrite, prior>>
  /\ UNCHANGED notBuf

\* the (deferred) Unlock / RUnlock and the return of Read, Write, Truncate, Flush
Return(t) ==
  /\ panicked = "" /\ pc[t] \in {"R_unlock", "W_unlock", "T_unlock", "F_unlock"}
  /\ mutex' = Unlocked(t)
  /\ pc' = [pc EXCEPT ![t] = "idle"]
  /\ frame' = [frame EXCEPT ![t] = NoFrame]
  /\ prior' = <<>>
  /\ UNCHANGED <<data, dataNil, dataLen, SizeInternal, hasChanges, panicked, uploading,
                 pendingWrite>>
  /\ UNCHANGED notBuf

\* ------------------------------------------------------- FetchContent
Bodies == SeqsUpTo(Bytes, MaxBody)

\* id, err := d.ID(auth): the identifier is resolved, or the error returned
FetchID(t, ok) ==
  /\ panicked = "" /\ pc[t] = "idle"
  /\ pc' = [pc EXCEPT ![t] = IF ok THEN "FC_get" ELSE "FC_ret"]
  /\ frame' = [frame EXCEPT ![t] =
       [NoFrame EXCEPT !.op = "FetchContent", !.status = IF ok THEN "" ELSE "error"]]
  /\ UNCHANGED <<data, dataNil, dataLen, SizeInternal, hasChanges, mutex, panicked,
                 uploading, pendingWrite, prior>>
  /\ UNCHANGED notBuf

\* body, err := Get("/me/drive/items/"+id+"/content", auth)
FetchGet(t, body) ==
  /\ panicked = "" /\ pc[t] = "FC_get"
  /\ pc' = [pc EXCEPT ![t] = "FC_store"]
  /\ frame' = [frame EXCEPT ![t].data = body]
  /\ UNCHANGED <<data, dataNil, dataLen, SizeInternal, hasChanges, mutex, panicked,
                 uploading, pendingWrite, prior>>
  /\ UNCHANGED notBuf

\* if err != nil { return err }
FetchGetFailed(t) ==
  /\ panicked = "" /\ pc[t] = "FC_get"
  /\ pc' = [pc EXCEPT ![t] = "FC_ret"]
  /\ frame' = [frame EXCEPT ![t].status = "error"]
  /\ UNCHANGED <<data, dataNil, dataLen, SizeInternal, hasChanges, mutex, panicked,
                 uploading, pendingWrite, prior>>
  /\ UNCHANGED notBuf

\* what FetchContent leaves in d.SizeInternal: it does not assign it
SizeAfterFetch(size, body) == size

\* d.mutex.Lock(); d.data = &body; d.mutex.Unlock(); return nil
FetchStore(t) ==
  /\ panicked = "" /\ pc[t] = "FC_store" /\ CanLock
  /\ \E c \in GrownCaps(Len(frame[t].data)) : data' = AppendAt(<<>>, 0, frame[t].data, c)
  /\ dataNil' = FALSE
  /\ dataLen' = Len(frame[t].data)
  /\ SizeInternal' = SizeAfterFetch(SizeInternal, frame[t].data)
  /\ pc' = [pc EXCEPT ![t] = "FC_ret"]
  /\ frame' = [frame EXCEPT ![t].status = "OK"]
  /\ UNCHANGED <<hasChanges, mutex, panicked, uploading, pendingWrite, prior>>
  /\ UNCHANGED notBuf

\* FetchContent returns (it holds no lock)
FetchReturn(t) ==
  /\ panicked = "" /\ pc[t] = "FC_ret"
  /\ pc' = [pc EXCEPT ![t] = "idle"]
  /\ frame' = [frame EXCEPT ![t] = NoFrame]
  /\ UNCHANGED <<data, dataNil, dataLen, SizeInternal, hasChanges, mutex, panicked,
                 uploading, pendingWrite, prior>>
  /\ UNCHANGED notBuf

NextFetch ==
  \/ \E t \in Threads, ok \in BOOLEAN : FetchID(t, ok)
  \/ \E t \in Threads, body \in Bodies : FetchGet(t, body)
  \/ \E t \in Threads : FetchGetFailed(t)
  \/ \E t \in Threads : FetchStore(t)
  \/ \E t \in Threads : FetchReturn(t)

NextBuf ==
  \/ \E t \in Threads : ReadLock(t)
  \/ \E t \in Threads, n \in 0..MaxData, off \in Offsets : ReadBody(t, n, off)
  \/ \E t \in Threads, d \in DataArgs, off \in Offsets : WriteLock(t, d, off)
  \/ \E t \in Threads : WriteBody(t)
  \/ \E t \in Threads, size \in Sizes : TruncateLock(t, size)
  \/ \E t \in Threads : TruncateBody(t)
  \/ \E t \in Threads : FlushLock(t)
  \/ \E t \in Threads : FlushCheck(t)
  \/ \E t \in Threads : FlushClear(t)
  \/ \E t \in Threads : FlushDispatch(t)
  \/ UploadDone
  \/ \E t \in Threads : Return(t)


\* DriveItem.Size of a file item: d.SizeInternal, read under the shared lock
Size == SizeInternal

\* DriveItem.Size: 4096 for a directory
DirSize == 4096
SizeOf(isDir) == IF isDir THEN DirSize ELSE Size

\* what Read(buf, off) with len(buf) = n gives in the current state
ReadNow(off, n) == ReadResult(data, dataLen, off, n)
ReadOK(bytes) == [panic |-> FALSE, bytes |-> bytes, status |-> "OK"]

\* ------------------------------------------------------------------ C1
\* C1: for a file item, any data and any offset >= 0 (within the prior
\* content, at its end or beyond it), Write(data, offset) returns and a
\* Read(buf, offset) with len(buf) = len(data) right after it returns
\* exactly data.
C1_WriteThenRead ==
  \A t \in Threads :
    (frame[t].op = "Write" /\ frame[t].off >= 0) =>
      /\ pc[t] # "panic"
      /\ pc[t] = "W_unlock" => ReadNow(frame[t].off, frame[t].n) = ReadOK(frame[t].data)

\* ------------------------------------------------------------------ C3
\* C3: no write is lost across flush: whenever the dirty flag is clear (and
\* no Flush stands between clearing it and dispatching), no Write or
\* Truncate has completed since the most recent upload dispatch; and the
\* flag is only ever cleared by a Flush that goes on to dispatch an upload.
C3_NoWriteLost ==
  /\ [](( ~hasChanges /\ \A t \in Threads : pc[t] # "F_dispatch") => ~pendingWrite)
  /\ [][(hasChanges /\ ~hasChanges') =>
          \E t \in Threads : pc[t] = "F_clear" /\ pc'[t] = "F_dispatch"]_bufVars

\* a Write/Truncate completed after a Flush dispatched (its upload is still
\* in flight), and the flag is set again
C3_Witness == hasChanges /\ pendingWrite /\ uploading > 0

\* ------------------------------------------------------------------ C4
\* C4: Flush dispatches an upload iff the dirty flag is set when it holds
\* the lock: a Flush about to return has sent exactly one upload and left
\* the flag clear if it saw the flag set, and none if it did not; it
\* returns OK whether or not the upload has finished; and no upload is
\* dispatched except one at a time by a Flush that saw the flag set.
C4_FlushDispatch ==
  /\ [](\A t \in Threads : pc[t] = "F_unlock" =>
          /\ frame[t].status = "OK"
          /\ frame[t].sent = (IF frame[t].saw THEN 1 ELSE 0)
          /\ ~hasChanges)
  /\ [][uploading' > uploading =>
          /\ uploading' = uploading + 1
          /\ \E t \in Threads : pc[t] = "F_dispatch" /\ frame[t].saw /\ frame'[t].sent = 1]_bufVars

\* a Flush of a dirty item is returning OK while its upload is in flight
C4_Witness ==
  \E t \in Threads : pc[t] = "F_unlock" /\ frame[t].saw /\ frame[t].sent = 1 /\ uploading > 0

\* ------------------------------------------------------------------ C7
\* C7: for a file with content length L and any n <= L, Truncate(n) returns
\* and then Size() = n, the buffer is the first n bytes of the prior
\* content, the dirty flag is set, and a Read at any offset beyond n
\* returns zero bytes with status OK.
C7_Truncate ==
  \A t \in Threads :
    (frame[t].op = "Truncate" /\ frame[t].n <= Len(prior)) =>
      /\ pc[t] # "panic"
      /\ pc[t] = "T_unlock" =>
           /\ Size = frame[t].n
           /\ Content = SubSeq(prior, 1, frame[t].n)
           /\ hasChanges
           /\ \A off \in (frame[t].n + 1)..(MaxOff + 1), k \in 0..MaxData :
                 ReadNow(off, k) = ReadOK(<<>>)

\* ------------------------------------------------------------------ C9
\* C9: when a Write or a Truncate has completed (and still holds the lock),
\* the declared size equals the length of the content buffer and the dirty
\* flag is set.
C9_SizeConsistent ==
  \A t \in Threads :
    pc[t] \in {"W_unlock", "T_unlock"} => (SizeInternal = dataLen /\ hasChanges)

\* a Truncate that shrank a non-empty buffer has completed
C9_Witness ==
  \E t \in Threads : pc[t] = "T_unlock" /\ frame[t].n < Len(prior) /\ dataLen = frame[t].n

\* ----------------------------------------------------------------- C13
\* C13: Read, Write and Truncate reject out-of-range arguments: no call
\* ends the process, and a Write at a negative offset or beyond the content
\* length, or a Truncate to more than the content length, returns a status
\* other than OK and leaves buffer, declared size and dirty flag alone.
C13_RejectOutOfRange ==
  /\ panicked = ""
  /\ \A t \in Threads :
       (\/ /\ pc[t] = "W_unlock"
              /\ (frame[t].off < 0 \/ frame[t].off > Len(prior))
           \/ /\ pc[t] = "T_unlock"
              /\ frame[t].n > Len(prior)) =>
         frame[t].status # "OK" /\ Content = prior

\* ----------------------------------------------------------------- C17
\* C17: in every reachable state Size() of a file item is the length of its
\* content buffer (no buffer: length 0), also after FetchContent replaced
\* the buffer and for an item decoded from a listing and not yet fetched;
\* Size() of a directory is 4096.
C17_SizeIsBufferLength ==
  /\ SizeOf(FALSE) = (IF dataNil THEN 0 ELSE dataLen)
  /\ SizeOf(TRUE) = 4096

\* ----------------------------------------------------------------- C19
\* C19: a Write(data, offset) with 0 <= offset <= L on a buffer of length L
\* (whatever the declared size) returns, reports len(data) bytes written,
\* and leaves a buffer of length max(L, offset+len(data)) that holds data at
\* [offset, offset+len(data)) and the prior bytes everywhere else.
C19_WriteFrame ==
  \A t \in Threads :
    (frame[t].op = "Write" /\ frame[t].off >= 0 /\ frame[t].off <= Len(prior)) =>
      /\ pc[t] # "panic"
      /\ pc[t] = "W_unlock" =>
           LET off == frame[t].off
               n == frame[t].n
               newLen == IF Len(prior) > off + n THEN Len(prior) ELSE off + n
           IN  /\ frame[t].ret = <<n>>
               /\ Content = [i \in 1..newLen |->
                               IF i > off /\ i <= off + n THEN frame[t].data[i - off]
                               ELSE prior[i]]

\* =================================================================== paths
\* A string is a sequence of one-character strings.
Slash == <<"/">>
RootMarker == <<"/", "d", "r", "i", "v", "e", "/", "r", "o", "o", "t", ":">>
RootName == <<"r", "o", "o", "t">>

MaxItems == 3      \* items besides the root
MaxPathLen == 8    \* longest path an item is moved under

\* strings.TrimPrefix
TrimPrefix(str, prefix) ==
  IF Len(str) >= Len(prefix) /\ SubSeq(str, 1, Len(prefix)) = prefix
  THEN SubSeq(str, Len(prefix) + 1, Len(str))
  ELSE str

\* strings.Replace(str, "//", "/", -1): non-overlapping, left to right
RECURSIVE ReplaceDoubleSlash(_)
ReplaceDoubleSlash(str) ==
  IF Len(str) < 2 THEN str
  ELSE IF str[1] = "/" /\ str[2] = "/"
       THEN Slash \o ReplaceDoubleSlash(SubSeq(str, 3, Len(str)))
       ELSE <<str[1]>> \o ReplaceDoubleSlash(Tail(str))

\* DriveItem.Path, from the item's name and its stored d.Parent.Path
PathOf(name, parentPath) ==
  IF parentPath = <<>> /\ name = RootName
  THEN Slash
  ELSE ReplaceDoubleSlash(TrimPrefix(parentPath \o Slash \o name, RootMarker))

\* the Parent.Path NewDriveItem stores: parent.Parent.Path + "/" + parent.Name()
NewParentPath(parentName, parentParentPath) == parentParentPath \o Slash \o parentName


Root == 0
Items == 0..MaxItems
Names == {<<"a">>, <<"b">>}
NoItem == [exists |-> FALSE, NameInternal |-> <<>>, ParentPath |-> <<>>, parent |-> 0]

Path(x) == PathOf(tree[x].NameInternal, tree[x].ParentPath)

\* the items on the parent chain of x, x included
RECURSIVE Chain(_)
Chain(x) == IF x = Root THEN {Root} ELSE {x} \cup Chain(tree[x].parent)

\* the path the remote service knows a directory under: its names from the root
RECURSIVE RemotePath(_)
RemotePath(x) ==
  IF x = Root THEN <<>>
  ELSE RemotePath(tree[x].parent) \o Slash \o tree[x].NameInternal

\* the root item: name "root", empty parent path (decoded from the service)
InitPath ==
  tree = [x \in Items |->
            IF x = Root
            THEN [exists |-> TRUE, NameInternal |-> RootName, ParentPath |-> <<>>,
                  parent |-> Root]
            ELSE NoItem]

\* NewDriveItem(name, mode, parent)
NewDriveItem(x, name, parent) ==
  /\ ~tree[x].exists /\ tree[parent].exists
  /\ tree' = [tree EXCEPT ![x] =
       [exists |-> TRUE, NameInternal |-> name,
        ParentPath |-> NewParentPath(tree[parent].NameInternal, tree[parent].ParentPath),
        parent |-> parent]]
  /\ UNCHANGED notPath

\* an item decoded from the listing of directory dir (GetChildren): its
\* parentReference.path is the root marker followed by the directory's path
ListedItem(x, name, dir) ==
  /\ ~tree[x].exists /\ tree[dir].exists
  /\ tree' = [tree EXCEPT ![x] =
       [exists |-> TRUE, NameInternal |-> name,
        ParentPath |-> RootMarker \o RemotePath(dir),
        parent |-> dir]]
  /\ UNCHANGED notPath

\* DriveItem.SetName (the mount's root is never renamed)
SetName(x, name) ==
  /\ x # Root /\ tree[x].exists
  /\ tree' = [tree EXCEPT ![x].NameInternal = name]
  /\ UNCHANGED notPath

\* DriveItem.setParent: Parent.Path = newParent.Path(), Parent.item = newParent
\* (an item is never moved under itself or under one of its descendants)
setParent(x, newParent) ==
  /\ x # Root /\ tree[x].exists /\ tree[newParent].exists
  /\ x \notin Chain(newParent)
  /\ Len(Path(newParent)) <= MaxPathLen
  /\ tree' = [tree EXCEPT ![x].ParentPath = Path(newParent), ![x].parent = newParent]
  /\ UNCHANGED notPath

NextPath ==
  \/ \E x \in Items, name \in Names, parent \in Items : NewDriveItem(x, name, parent)
  \/ \E x \in Items, name \in Names, dir \in Items : ListedItem(x, name, dir)
  \/ \E x \in Items, name \in Names : SetName(x, name)
  \/ \E x \in Items, newParent \in Items : setParent(x, newParent)


\* p joined with name by a single "/"
Join(p, name) == IF p = Slash THEN Slash \o name ELSE p \o Slash \o name

\* ------------------------------------------------------------------ C8
\* C8: in every reachable state Path() of the root is "/" and, for every
\* other item x however built, renamed or reparented (itself or an
\* ancestor), Path(x) is Path(parent(x)) joined with name(x) by one "/".
C8_PathRelation ==
  /\ Path(Root) = Slash
  /\ \A x \in Items \ {Root} :
       tree[x].exists => Path(x) = Join(Path(tree[x].parent), tree[x].NameInternal)

\* ==================================================== identity resolution
\* One item made by NewDriveItem under the root or under a directory "a"
\* decoded from the root's listing, and the remote service's item at the
\* place the item belongs (remote: its identifier, "" while there is none).
MaxCalls == 2      \* calls one thread makes
MaxIDCalls == 3    \* ID() calls of all threads together

ItemName == <<"b">>
DirName == <<"a">>


NoIFrame == [auth |-> "", cpyID |-> "", resp |-> "", putErr |-> "", path |-> <<>>,
             id |-> "", err |-> "", put |-> FALSE, live |-> "", got |-> "",
             getErr |-> ""]

\* where the remote service keeps the item: under its parent directory's path
RemoteItemPath == IF item.underRoot THEN Slash \o item.NameInternal
                  ELSE Slash \o DirName \o Slash \o item.NameInternal

\* NewDriveItem(name, mode, parent): no identifier, the parent path stored
InitIDWith(underRoot, isDir, existing) ==
  /\ item = [NameInternal |-> ItemName,
             ParentPath |-> IF underRoot THEN NewParentPath(RootName, <<>>)
                            ELSE NewParentPath(DirName, RootMarker),
             IDInternal |-> "", isDir |-> isDir, underRoot |-> underRoot]
  /\ remote = existing
  /\ preExisting = (existing # "")
  /\ ipc = [t \in Threads |-> "idle"]
  /\ iframe = [t \in Threads |-> NoIFrame]
  /\ calls = [t \in Threads |-> 0]
  /\ putsIssued = 0
  /\ failures = {}
  /\ overlap = FALSE

InitID == \E underRoot \in BOOLEAN, isDir \in BOOLEAN, existing \in {"", "id0"} :
            InitIDWith(underRoot, isDir, existing)

InCall(t) == ipc[t] \notin {"idle", "done"}

\* the ID() calls started so far, over all threads
IDCallsMade == Cardinality({c \in Threads \X (1..MaxCalls) : c[2] <= calls[c[1]]})

\* what ID() does with its snapshot: the directory fast path, the cached
\* identifier, or the placeholder upload
NeedsPutAlways(isDir, cpyID, auth) == ~isDir /\ auth # ""
NeedsPut(isDir, cpyID, auth) == ~isDir /\ cpyID = "" /\ auth # ""

\* cpy := *d under the shared lock, then the branch on the copy
ID_Snapshot(t, auth) ==
  /\ ipc[t] = "idle" /\ calls[t] < MaxCalls /\ IDCallsMade < MaxIDCalls
  /\ calls' = [calls EXCEPT ![t] = @ + 1]
  /\ overlap' = (overlap \/ \E u \in Threads \ {t} : InCall(u))
  /\ IF NeedsPut(item.isDir, item.IDInternal, auth)
     THEN /\ ipc' = [ipc EXCEPT ![t] = "put"]
          /\ iframe' = [iframe EXCEPT ![t] =
               [NoIFrame EXCEPT !.auth = auth, !.cpyID = item.IDInternal]]
     ELSE /\ ipc' = [ipc EXCEPT ![t] = "done"]
          /\ iframe' = [iframe EXCEPT ![t] =
               [NoIFrame EXCEPT !.auth = auth, !.cpyID = item.IDInternal,
                                !.id = item.IDInternal]]
  /\ UNCHANGED <<item, remote, putsIssued, failures, preExisting>>
  /\ UNCHANGED notID

\* Put(uploadPath, auth, ""): the request leaves
ID_PutSend(t) ==
  /\ ipc[t] = "put"
  /\ ipc' = [ipc EXCEPT ![t] = "put_wait"]
  /\ iframe' = [iframe EXCEPT ![t].put = TRUE]
  /\ putsIssued' = putsIssued + 1
  /\ UNCHANGED <<item, remote, calls, failures, overlap, preExisting>>
  /\ UNCHANGED notID

\* the remote item after an upload: created with a fresh identifier, or the
\* existing one with its content replaced
RemoteAfterPut(r) == IF r = "" THEN "id1" ELSE r

\* the remote service has an item at path
RemoteHas(path) == remote # "" /\ path = RemoteItemPath

\* the remote service answers the placeholder upload: it creates the item, or
\* replaces the content of the one that exists, or refuses with
\* nameAlreadyExists when one exists, or the request fails otherwise
ID_PutCreated(t) ==
  /\ ipc[t] = "put_wait"
  /\ remote' = RemoteAfterPut(remote)
  /\ ipc' = [ipc EXCEPT ![t] = "commit"]
  /\ iframe' = [iframe EXCEPT ![t].resp = remote']
  /\ UNCHANGED <<item, calls, putsIssued, failures, overlap, preExisting>>
  /\ UNCHANGED notID

ID_PutExists(t) ==
  /\ ipc[t] = "put_wait" /\ remote # ""
  /\ ipc' = [ipc EXCEPT ![t] = "recheck"]
  /\ iframe' = [iframe EXCEPT ![t].putErr = "nameAlreadyExists"]
  /\ failures' = failures \cup {"nameAlreadyExists"}
  /\ UNCHANGED <<item, remote, calls, putsIssued, overlap, preExisting>>
  /\ UNCHANGED notID

\* return "", err
ID_PutFailed(t) ==
  /\ ipc[t] = "put_wait"
  /\ ipc' = [ipc EXCEPT ![t] = "done"]
  /\ iframe' = [iframe EXCEPT ![t].putErr = "network", ![t].err = "network"]
  /\ failures' = failures \cup {"network"}
  /\ UNCHANGED <<item, remote, calls, putsIssued, overlap, preExisting>>
  /\ UNCHANGED notID

\* d.IDInternal = unsafe.IDInternal
StoredIDKept(old, new) == old
StoredID(old, new) == new

\* the response decoded into a throwaway item; its identifier stored under
\* the exclusive lock and returned
ID_Commit(t) ==
  /\ ipc[t] = "commit"
  /\ item' = [item EXCEPT !.IDInternal = StoredID(@, iframe[t].resp)]
  /\ ipc' = [ipc EXCEPT ![t] = "done"]
  /\ iframe' = [iframe EXCEPT ![t].id = iframe[t].resp]
  /\ UNCHANGED <<remote, calls, putsIssued, failures, overlap, preExisting>>
  /\ UNCHANGED notID

\* err = json.Unmarshal(resp, unsafe) fails: return "", err
ID_DecodeFailed(t) ==
  /\ ipc[t] = "commit"
  /\ ipc' = [ipc EXCEPT ![t] = "done"]
  /\ iframe' = [iframe EXCEPT ![t].err = "decode"]
  /\ failures' = failures \cup {"decode"}
  /\ UNCHANGED <<item, remote, calls, putsIssued, overlap, preExisting>>
  /\ UNCHANGED notID

\* nameAlreadyExists: id := d.IDInternal; path := d.Path() under the shared
\* lock; return id if another thread has stored one
ID_Recheck(t) ==
  /\ ipc[t] = "recheck"
  /\ IF item.IDInternal # ""
     THEN /\ ipc' = [ipc EXCEPT ![t] = "done"]
          /\ iframe' = [iframe EXCEPT ![t].id = item.IDInternal,
                                      ![t].live = item.IDInternal]
     ELSE /\ ipc' = [ipc EXCEPT ![t] = "getitem"]
          /\ iframe' = [iframe EXCEPT ![t].path = PathOf(item.NameInternal, item.ParentPath)]
  /\ UNCHANGED <<item, remote, calls, putsIssued, failures, overlap, preExisting>>
  /\ UNCHANGED notID

\* GetItem(path, auth): the remote item at that path, if the service has one
ID_GetItemFound(t) ==
  /\ ipc[t] = "getitem"
  /\ RemoteHas(iframe[t].path)
  /\ ipc' = [ipc EXCEPT ![t] = "done"]
  /\ iframe' = [iframe EXCEPT ![t].got = remote, ![t].id = remote]
  /\ UNCHANGED <<item, remote, calls, putsIssued, failures, overlap, preExisting>>
  /\ UNCHANGED notID

\* return "", err after a failed lookup: the lookup's err is declared in the
\* inner block, so the err returned is the upload's
RecoveryErrLookup(putErr, getErr) == getErr
RecoveryErr(putErr, getErr) == putErr

\* no item at that path
ID_GetItemNotFound(t) ==
  /\ ipc[t] = "getitem"
  /\ ~RemoteHas(iframe[t].path)
  /\ ipc' = [ipc EXCEPT ![t] = "done"]
  /\ iframe' = [iframe EXCEPT ![t].getErr = "notFound",
                              ![t].err = RecoveryErr(iframe[t].putErr, "notFound")]
  /\ failures' = failures \cup {"notFound"}
  /\ UNCHANGED <<item, remote, calls, putsIssued, overlap, preExisting>>
  /\ UNCHANGED notID

\* the lookup fails at the transport
ID_GetItemFailed(t) ==
  /\ ipc[t] = "getitem"
  /\ ipc' = [ipc EXCEPT ![t] = "done"]
  /\ iframe' = [iframe EXCEPT ![t].getErr = "unavailable",
                              ![t].err = RecoveryErr(iframe[t].putErr, "unavailable")]
  /\ failures' = failures \cup {"network"}
  /\ UNCHANGED <<item, remote, calls, putsIssued, overlap, preExisting>>
  /\ UNCHANGED notID

\* the caller has its result and may call again
ID_Again(t) ==
  /\ ipc[t] = "done" /\ calls[t] < MaxCalls
  /\ ipc' = [ipc EXCEPT ![t] = "idle"]
  /\ iframe' = [iframe EXCEPT ![t] = NoIFrame]
  /\ UNCHANGED <<item, remote, calls, putsIssued, failures, overlap, preExisting>>
  /\ UNCHANGED notID

NextID ==
  \/ \E t \in Threads, auth \in {"", "token"} : ID_Snapshot(t, auth)
  \/ \E t \in Threads : ID_PutSend(t)
  \/ \E t \in Threads : ID_PutCreated(t)
  \/ \E t \in Threads : ID_PutExists(t)
  \/ \E t \in Threads : ID_PutFailed(t)
  \/ \E t \in Threads : ID_Commit(t)
  \/ \E t \in Threads : ID_DecodeFailed(t)
  \/ \E t \in Threads : ID_Recheck(t)
  \/ \E t \in Threads : ID_GetItemFound(t)
  \/ \E t \in Threads : ID_GetItemNotFound(t)
  \/ \E t \in Threads : ID_GetItemFailed(t)
  \/ \E t \in Threads : ID_Again(t)

\* ------------------------------------------------------------------ C2
\* C2: concurrent ID() calls (with a token) on a file item that has no
\* identifier and no remote counterpart yet all return the same non-empty
\* identifier and no error, whatever the interleaving, when the only
\* transport failure is the "name already exists" answer to a second upload.
C2_SameIdentifier ==
  \A t \in Threads :
    (/\ ipc[t] = "done" /\ iframe[t].auth # "" /\ ~item.isDir
     /\ ~preExisting /\ failures \cap {"network", "decode"} = {}) =>
      /\ iframe[t].err = "" /\ iframe[t].id # ""
      /\ \A u \in Threads :
           (ipc[u] = "done" /\ iframe[u].auth # "") => iframe[u].id = iframe[t].id

\* ----------------------------------------------------------------- C10
\* C10 as stated: among concurrent ID() calls on a file item without an
\* identifier, while no transport call has failed, at most one placeholder
\* upload is issued.
C10_AtMostOnePut == failures = {} => putsIssued <= 1

\* C10, amended: among ID() calls on a file item that do not overlap (each
\* starts after the one before it has returned), while no transport call has
\* failed, at most one placeholder upload is issued.
C10_NonRacingOnePut == (~overlap /\ failures = {}) => putsIssued <= 1

\* two calls with a token have run one after the other, the first one
\* uploading the placeholder
C10_Witness ==
  /\ ~overlap /\ failures = {} /\ putsIssued = 1 /\ ~item.isDir
  /\ \E t \in Threads, u \in Threads :
       /\ t # u /\ calls[t] = 1 /\ calls[u] = 1
       /\ ipc[t] = "done" /\ ipc[u] = "done"
       /\ iframe[t].put /\ ~iframe[u].put /\ iframe[u].auth # ""
       /\ iframe[u].id = iframe[t].id /\ iframe[u].id # ""

\* ----------------------------------------------------------------- C11
\* C11: after the placeholder upload fails with "name already exists" the
\* call issues no further upload; it returns the live item's identifier if
\* another caller has stored one, otherwise the identifier of the item the
\* lookup by path returns, and if the lookup fails too it returns the
\* upload's error, not the lookup's; an upload failing otherwise returns
\* that error unchanged.  A call returning an error returns the empty
\* identifier; the stored identifier changes only by the commit of a call
\* that returns no error.
C11_FailureHandling ==
  /\ [](\A t \in Threads :
         /\ iframe[t].putErr # "" => ipc[t] \in {"recheck", "getitem", "done"}
         /\ ipc[t] = "done" =>
              /\ iframe[t].err # "" => iframe[t].id = ""
              /\ iframe[t].putErr = "nameAlreadyExists" =>
                   IF iframe[t].live # ""
                   THEN iframe[t].id = iframe[t].live /\ iframe[t].err = ""
                   ELSE IF iframe[t].getErr = ""
                        THEN iframe[t].id = iframe[t].got /\ iframe[t].err = ""
                        ELSE iframe[t].err = "nameAlreadyExists" /\ iframe[t].id = ""
              /\ iframe[t].putErr \notin {"", "nameAlreadyExists"} =>
                   iframe[t].err = iframe[t].putErr /\ iframe[t].id = "")
  /\ [][item' # item =>
          \E t \in Threads : /\ ipc[t] = "commit" /\ ipc'[t] = "done"
                             /\ iframe'[t].err = ""
                             /\ iframe'[t].id = item'.IDInternal]_idVars

\* an upload was refused with "name already exists", no caller had stored an
\* identifier, the lookup by path failed, and the call has returned
C11_Witness ==
  \E t \in Threads :
    /\ ipc[t] = "done" /\ iframe[t].putErr = "nameAlreadyExists"
    /\ iframe[t].live = "" /\ iframe[t].getErr = "unavailable"
    /\ iframe[t].err = "nameAlreadyExists"

\* ----------------------------------------------------------------- C14
\* C14: whenever ID() has contacted the transport and returns a non-empty
\* identifier without error (after a successful upload or after the lookup
\* of the "name already exists" branch), the item's stored identifier
\* equals the returned one when the call returns.
C14_StoredOnReturn ==
  \A t \in Threads :
    (ipc[t] = "done" /\ iframe[t].put /\ iframe[t].err = "" /\ iframe[t].id # "") =>
      item.IDInternal = iframe[t].id

\* ----------------------------------------------------------------- C18
\* C18: a call of ID() on a directory, on an item with a cached identifier,
\* or with an empty access token returns the cached identifier and no error
\* without an upload or a lookup, and changes neither the item nor the
\* remote service.
C18_FastPaths ==
  /\ [](\A t \in Threads :
         (/\ ipc[t] = "done"
          /\ item.isDir \/ iframe[t].cpyID # "" \/ iframe[t].auth = "") =>
           /\ ~iframe[t].put /\ iframe[t].putErr = ""
           /\ iframe[t].path = <<>> /\ iframe[t].got = "" /\ iframe[t].getErr = ""
           /\ iframe[t].err = "" /\ iframe[t].id = iframe[t].cpyID)
  /\ [][\A t \in Threads :
          (ipc[t] = "idle" /\ ipc'[t] = "done") =>
            item' = item /\ remote' = remote /\ putsIssued' = putsIssued]_idVars

\* a call with a token on a file item whose identifier is cached has returned
C18_Witness ==
  \E t \in Threads :
    /\ ipc[t] = "done" /\ ~item.isDir /\ iframe[t].auth # ""
    /\ iframe[t].cpyID # "" /\ iframe[t].id = iframe[t].cpyID /\ ~iframe[t].put

\* ========================================================= children cache
MaxChildren == 2   \* children in one listing
MaxListCalls == 2  \* GetChildren / NLink calls of all threads together

\* strings.ToLower
LowerChar(c) == IF c = "A" THEN "a" ELSE IF c = "B" THEN "b" ELSE c
ToLower(str) == [i \in 1..Len(str) |-> LowerChar(str[i])]

\* The remote service's names are unique in a directory whatever their case.
ListNames == {<<"A">>, <<"b">>}
Child == [name : ListNames, dir : BOOLEAN]
Listings ==
  {l \in SeqsUpTo(Child, MaxChildren) :
     \A i \in 1..Len(l), j \in 1..Len(l) :
       i # j => ToLower(l[i].name) # ToLower(l[j].name)}

NoCFrame == [op |-> "", fetched |-> <<>>, next |-> 1, requested |-> FALSE,
             sawNil |-> FALSE, ret |-> "", nlink |-> 0]

\* an item decoded from a listing: children nil, no subdirectory counted
InitChWith(isDir) ==
  /\ dirIsDir = isDir
  /\ children = [nil |-> TRUE, map |-> {}]
  /\ subdir = 0
  /\ chMutex = [writer |-> 0, readers |-> {}]
  /\ cpc = [t \in Threads |-> "idle"]
  /\ cframe = [t \in Threads |-> NoCFrame]
  /\ ccalls = [t \in Threads |-> 0]
  /\ listRequests = 0
  /\ listFailed = FALSE

InitCh == \E isDir \in BOOLEAN : InitChWith(isDir)

\* the calls started so far, over all threads
CallsMade == Cardinality({c \in Threads \X (1..MaxCalls) : c[2] <= ccalls[c[1]]})

\* if !d.IsDir() || d.children != nil { return d.children, nil }
\* (read without the lock)
CachedAfterFailure(isDir, isNil) == ~isDir \/ ~isNil \/ listFailed
Cached(isDir, isNil) == ~isDir \/ ~isNil

GC_Check(t) ==
  /\ cpc[t] = "idle" /\ ccalls[t] < MaxCalls /\ CallsMade < MaxListCalls
  /\ ccalls' = [ccalls EXCEPT ![t] = @ + 1]
  /\ IF Cached(dirIsDir, children.nil)
     THEN /\ cpc' = [cpc EXCEPT ![t] = "done"]
          /\ cframe' = [cframe EXCEPT ![t] =
               [NoCFrame EXCEPT !.op = "GetChildren", !.sawNil = children.nil,
                                !.ret = "children"]]
     ELSE /\ cpc' = [cpc EXCEPT ![t] = "get"]
          /\ cframe' = [cframe EXCEPT ![t] =
               [NoCFrame EXCEPT !.op = "GetChildren", !.sawNil = children.nil]]
  /\ UNCHANGED <<dirIsDir, children, subdir, chMutex, listRequests, listFailed>>
  /\ UNCHANGED notCh

\* body, err := Get(ChildrenPath(d.Path()), auth); json.Unmarshal(body, &fetched)
GC_Get(t, listing) ==
  /\ cpc[t] = "get"
  /\ listRequests' = listRequests + 1
  /\ cpc' = [cpc EXCEPT ![t] = "lock"]
  /\ cframe' = [cframe EXCEPT ![t].fetched = listing, ![t].requested = TRUE]
  /\ UNCHANGED <<dirIsDir, children, subdir, chMutex, ccalls, listFailed>>
  /\ UNCHANGED notCh

\* if err != nil { return nil, err }
GC_GetFailed(t) ==
  /\ cpc[t] = "get"
  /\ listRequests' = listRequests + 1
  /\ listFailed' = TRUE
  /\ cpc' = [cpc EXCEPT ![t] = "done"]
  /\ cframe' = [cframe EXCEPT ![t].requested = TRUE, ![t].ret = "error"]
  /\ UNCHANGED <<dirIsDir, children, subdir, chMutex, ccalls>>
  /\ UNCHANGED notCh

\* d.mutex.Lock(); d.children = make(map[string]*DriveItem)
GC_Lock(t) ==
  /\ cpc[t] = "lock"
  /\ chMutex.writer = 0 /\ chMutex.readers = {}
  /\ chMutex' = [chMutex EXCEPT !.writer = t]
  /\ children' = [nil |-> FALSE, map |-> {}]
  /\ cpc' = [cpc EXCEPT ![t] = "insert"]
  /\ UNCHANGED <<dirIsDir, subdir, cframe, ccalls, listRequests, listFailed>>
  /\ UNCHANGED notCh

\* d.children[strings.ToLower(child.Name())] = child
Inserted(map, child) ==
  {c \in map : c.key # ToLower(child.name)}
    \cup {[key |-> ToLower(child.name), name |-> child.name, dir |-> child.dir]}

\* one turn of the loop over fetched.Children
GC_Insert(t) ==
  /\ cpc[t] = "insert" /\ cframe[t].next <= Len(cframe[t].fetched)
  /\ LET child == cframe[t].fetched[cframe[t].next]
     IN  /\ subdir' = IF child.dir THEN subdir + 1 ELSE subdir
         /\ children' = [children EXCEPT !.map = Inserted(@, child)]
  /\ cframe' = [cframe EXCEPT ![t].next = @ + 1]
  /\ UNCHANGED <<dirIsDir, chMutex, cpc, ccalls, listRequests, listFailed>>
  /\ UNCHANGED notCh

\* the loop ends: the deferred Unlock, return d.children, nil
GC_Unlock(t) ==
  /\ cpc[t] = "insert" /\ cframe[t].next > Len(cframe[t].fetched)
  /\ chMutex' = [chMutex EXCEPT !.writer = 0]
  /\ cpc' = [cpc EXCEPT ![t] = "done"]
  /\ cframe' = [cframe EXCEPT ![t].ret = "children"]
  /\ UNCHANGED <<dirIsDir, children, subdir, ccalls, listRequests, listFailed>>
  /\ UNCHANGED notCh

\* DriveItem.NLink: 2 + d.subdir for a directory, 1 for a file
NLink == IF dirIsDir THEN 2 + subdir ELSE 1

\* NLink(), the counter read under the shared lock
NLinkCall(t) ==
  /\ cpc[t] = "idle" /\ ccalls[t] < MaxCalls /\ CallsMade < MaxListCalls
  /\ ~dirIsDir \/ chMutex.writer = 0
  /\ ccalls' = [ccalls EXCEPT ![t] = @ + 1]
  /\ cpc' = [cpc EXCEPT ![t] = "done"]
  /\ cframe' = [cframe EXCEPT ![t] = [NoCFrame EXCEPT !.op = "NLink", !.nlink = NLink]]
  /\ UNCHANGED <<dirIsDir, children, subdir, chMutex, listRequests, listFailed>>
  /\ UNCHANGED notCh

\* the caller has its result and may call again
GC_Again(t) ==
  /\ cpc[t] = "done" /\ ccalls[t] < MaxCalls
  /\ cpc' = [cpc EXCEPT ![t] = "idle"]
  /\ cframe' = [cframe EXCEPT ![t] = NoCFrame]
  /\ UNCHANGED <<dirIsDir, children, subdir, chMutex, ccalls, listRequests, listFailed>>
  /\ UNCHANGED notCh

NextCh ==
  \/ \E t \in Threads : GC_Check(t)
  \/ \E t \in Threads, listing \in Listings : GC_Get(t, listing)
  \/ \E t \in Threads : GC_GetFailed(t)
  \/ \E t \in Threads : GC_Lock(t)
  \/ \E t \in Threads : GC_Insert(t)
  \/ \E t \in Threads : GC_Unlock(t)
  \/ \E t \in Threads : NLinkCall(t)
  \/ \E t \in Threads : GC_Again(t)

\* ------------------------------------------------------------------ C5
\* C5: the children cache is one-shot: calls of GetChildren on one directory
\* instance, with no listing request failing, issue at most one listing
\* request between them.
C5_OneListing == ~listFailed => listRequests <= 1

\* ------------------------------------------------------------------ C6
\* C6: whenever the directory's lock is not held for writing, NLink of a
\* directory is 2 plus the number of subdirectories in its child set, and
\* NLink of a file is 1, under any interleaving of GetChildren calls.
C6_NLink ==
  chMutex.writer = 0 =>
    NLink = (IF dirIsDir THEN 2 + Cardinality({c \in children.map : c.dir}) ELSE 1)

\* ----------------------------------------------------------------- C12
\* C12: a GetChildren call whose listing request fails returns the error
\* and leaves the child cache (still not populated) and the subdirectory
\* counter as they were; a later call on the directory that finds the cache
\* not populated goes on to the listing request, and a call at the listing
\* request always issues it.
C12_FailedListing ==
  /\ [](\A t \in Threads : cframe[t].ret = "error" => cframe[t].requested)
  /\ [][\A t \in Threads :
          (cpc[t] = "get" /\ cpc'[t] = "done") =>
            /\ cframe'[t].ret = "error"
            /\ children' = children /\ subdir' = subdir]_chVars
  /\ [][\A t \in Threads :
          (/\ cpc[t] = "idle" /\ cframe'[t].op = "GetChildren"
           /\ dirIsDir /\ children.nil) => cpc'[t] = "get"]_chVars
  /\ [][\A t \in Threads :
          (cpc[t] = "get" /\ cpc'[t] # "get") => listRequests' = listRequests + 1]_chVars

\* after a failed listing request the cache is still not populated and a
\* second request has been issued and answered
C12_Witness ==
  /\ listFailed /\ listRequests = 2 /\ children.nil /\ subdir = 0
  /\ \E t \in Threads : cpc[t] = "lock" /\ cframe[t].requested

\* ================================================================== locks
\* The lock skeleton of the methods: which item's lock a call takes, in which
\* mode, where it reads or writes an item's fields and where a transport
\* call is in flight.  What a call computes is left out; every branch of a
\* method can be taken.
\* two items of one tree, each of which may be the other's new parent
LockItems == {"a", "b"}
NoItemL == ""
NoLFrame == [op |-> "", d |-> NoItemL, np |-> NoItemL]

InitLock ==
  /\ locks = [x \in LockItems |-> [writer |-> 0, readers |-> {}]]
  /\ lpc = [t \in Threads |-> "idle"]
  /\ lframe = [t \in Threads |-> NoLFrame]

\* sync.RWMutex of item x
LCanLock(x) == locks[x].writer = 0 /\ locks[x].readers = {}
LCanRLock(x) == locks[x].writer = 0
LLock(x, t) == [locks EXCEPT ![x].writer = t]
LRLock(x, t) == [locks EXCEPT ![x].readers = @ \cup {t}]
LUnlock(x, t) == [locks EXCEPT ![x].writer = 0]
LRUnlock(x, t) == [locks EXCEPT ![x].readers = @ \ {t}]

\* a call of thread t starts, or moves on
LStart(t, op, d, np, to) ==
  /\ lpc[t] = "idle"
  /\ lpc' = [lpc EXCEPT ![t] = to]
  /\ lframe' = [lframe EXCEPT ![t] = [op |-> op, d |-> d, np |-> np]]
LGoto(t, from, to) ==
  /\ lpc[t] = from
  /\ lpc' = [lpc EXCEPT ![t] = to]
  /\ lframe' = [lframe EXCEPT ![t] = IF to = "idle" THEN NoLFrame ELSE @]

\* SetName: d.mutex.Lock(); d.NameInternal = name; d.mutex.Unlock()
LSetNameLock(t, d) ==
  /\ LCanLock(d) /\ LStart(t, "SetName", d, NoItemL, "SN_write")
  /\ locks' = LLock(d, t)
  /\ UNCHANGED notLock
LSetNameWrite(t) ==
  /\ LGoto(t, "SN_write", "idle")
  /\ locks' = LUnlock(lframe[t].d, t)
  /\ UNCHANGED notLock

\* Name (value receiver: the call copies *d), no lock
LNameCopy(t, d) ==
  /\ LStart(t, "Name", d, NoItemL, "N_copy")
  /\ UNCHANGED locks
  /\ UNCHANGED notLock
LNameReturn(t) ==
  /\ LGoto(t, "N_copy", "idle")
  /\ UNCHANGED locks
  /\ UNCHANGED notLock

\* setParent: d.mutex.Lock(); defer d.mutex.Unlock()
LSetParentLock(t, d, np) ==
  /\ d # np /\ LCanLock(d) /\ LStart(t, "setParent", d, np, "SP_id")
  /\ locks' = LLock(d, t)
  /\ UNCHANGED notLock
\* id, _ := newParent.ID(Auth{}): the snapshot under newParent's shared lock
LSetParentID(t) ==
  /\ LGoto(t, "SP_id", "SP_path") /\ LCanRLock(lframe[t].np)
  /\ UNCHANGED locks
  /\ UNCHANGED notLock
\* newParent.Path() (no lock), d.Parent = ..., the deferred Unlock
LSetParentWrite(t) ==
  /\ LGoto(t, "SP_path", "idle")
  /\ locks' = LUnlock(lframe[t].d, t)
  /\ UNCHANGED notLock

\* NewDriveItem: parentID, _ := parent.ID(Auth{})
LNewItemID(t, parent) ==
  /\ LCanRLock(parent) /\ LStart(t, "NewDriveItem", parent, NoItemL, "ND_rlock")
  /\ UNCHANGED locks
  /\ UNCHANGED notLock
\* parent.mutex.RLock(); defer parent.mutex.RUnlock()
LNewItemRLock(t) ==
  /\ LGoto(t, "ND_rlock", "ND_build") /\ LCanRLock(lframe[t].d)
  /\ locks' = LRLock(lframe[t].d, t)
  /\ UNCHANGED notLock
\* return &DriveItem{...}
LNewItemBuild(t) ==
  /\ LGoto(t, "ND_build", "idle")
  /\ locks' = LRUnlock(lframe[t].d, t)
  /\ UNCHANGED notLock

\* ID, called by itself or first thing in FetchContent: the snapshot under
\* the shared lock, then the fast paths or the upload
LIDSnapshot(t, op, d, np, fast) ==
  /\ d # np /\ LCanRLock(d)
  /\ LStart(t, op, d, np, IF fast THEN "ID_ret" ELSE "ID_put")
  /\ UNCHANGED locks
  /\ UNCHANGED notLock
\* Put answers: success, nameAlreadyExists, another failure
LIDPutCreated(t) ==
  /\ LGoto(t, "ID_put", "ID_unsafe")
  /\ UNCHANGED locks
  /\ UNCHANGED notLock
LIDPutExists(t) ==
  /\ LGoto(t, "ID_put", "ID_recheck")
  /\ UNCHANGED locks
  /\ UNCHANGED notLock
LIDPutFailed(t) ==
  /\ LGoto(t, "ID_put", "ID_ret")
  /\ UNCHANGED locks
  /\ UNCHANGED notLock
\* unsafe := NewDriveItem(cpy.Name(), 0644, cpy.Parent.item): the parent's
\* shared lock, taken and released; json.Unmarshal fails or not
LIDUnsafe(t, ok) ==
  /\ LGoto(t, "ID_unsafe", IF ok THEN "ID_commit" ELSE "ID_ret")
  /\ LCanRLock(lframe[t].np)
  /\ UNCHANGED locks
  /\ UNCHANGED notLock
\* d.mutex.Lock(); d.IDInternal = unsafe.IDInternal
LIDCommitLock(t) ==
  /\ LGoto(t, "ID_commit", "ID_store") /\ LCanLock(lframe[t].d)
  /\ locks' = LLock(lframe[t].d, t)
  /\ UNCHANGED notLock
\* d.mutex.Unlock()
LIDCommitStore(t) ==
  /\ LGoto(t, "ID_store", "ID_ret")
  /\ locks' = LUnlock(lframe[t].d, t)
  /\ UNCHANGED notLock
\* the lock after the recheck d.mutex.RLock(); id := d.IDInternal; ...: held
\* until the return when an identifier was found, released before the lookup
AfterRecheckHeld(found, d, t) == LRLock(d, t)
AfterRecheck(found, d, t) == IF found THEN LRLock(d, t) ELSE locks
LIDRecheck(t, found) ==
  /\ LGoto(t, "ID_recheck", IF found THEN "ID_ret_held" ELSE "ID_getitem")
  /\ LCanRLock(lframe[t].d)
  /\ locks' = AfterRecheck(found, lframe[t].d, t)
  /\ UNCHANGED notLock
\* return id, nil with the deferred RUnlock
LIDReturnHeld(t) ==
  /\ LGoto(t, "ID_ret_held", "ID_ret")
  /\ locks' = LRUnlock(lframe[t].d, t)
  /\ UNCHANGED notLock
\* GetItem(path, auth) answers
LIDGetItem(t) ==
  /\ LGoto(t, "ID_getitem", "ID_ret")
  /\ UNCHANGED locks
  /\ UNCHANGED notLock
\* ID returns: to its caller, or into FetchContent (which returns on an error)
LIDReturn(t, ok) ==
  /\ LGoto(t, "ID_ret", IF lframe[t].op = "FetchContent" /\ ok THEN "FC_get" ELSE "idle")
  /\ UNCHANGED locks
  /\ UNCHANGED notLock

\* FetchContent: body, err := Get(...)
LFetchGet(t, ok) ==
  /\ LGoto(t, "FC_get", IF ok THEN "FC_lock" ELSE "idle")
  /\ UNCHANGED locks
  /\ UNCHANGED notLock
\* d.mutex.Lock(); d.data = &body
LFetchLock(t) ==
  /\ LGoto(t, "FC_lock", "FC_store") /\ LCanLock(lframe[t].d)
  /\ locks' = LLock(lframe[t].d, t)
  /\ UNCHANGED notLock
LFetchStore(t) ==
  /\ LGoto(t, "FC_store", "idle")
  /\ locks' = LUnlock(lframe[t].d, t)
  /\ UNCHANGED notLock

\* GetChildren: if !d.IsDir() || d.children != nil, no lock
LChildrenCheck(t, d) ==
  /\ LStart(t, "GetChildren", d, NoItemL, "GC_check")
  /\ UNCHANGED locks
  /\ UNCHANGED notLock
LChildrenBranch(t, cached) ==
  /\ LGoto(t, "GC_check", IF cached THEN "idle" ELSE "GC_get")
  /\ UNCHANGED locks
  /\ UNCHANGED notLock
\* body, err := Get(ChildrenPath(d.Path()), auth)
LChildrenGet(t, ok) ==
  /\ LGoto(t, "GC_get", IF ok THEN "GC_lock" ELSE "idle")
  /\ UNCHANGED locks
  /\ UNCHANGED notLock
\* d.mutex.Lock(); defer d.mutex.Unlock(); the map is filled
LChildrenLock(t) ==
  /\ LGoto(t, "GC_lock", "GC_fill") /\ LCanLock(lframe[t].d)
  /\ locks' = LLock(lframe[t].d, t)
  /\ UNCHANGED notLock
LChildrenFill(t) ==
  /\ LGoto(t, "GC_fill", "idle")
  /\ locks' = LUnlock(lframe[t].d, t)
  /\ UNCHANGED notLock

\* Flush: d.mutex.Lock(); getRoot() walks the parents (no lock of theirs);
\* go d.Upload(auth); the deferred Unlock
LFlushLock(t, d, np) ==
  /\ d # np /\ LCanLock(d) /\ LStart(t, "Flush", d, np, "FL_body")
  /\ locks' = LLock(d, t)
  /\ UNCHANGED notLock
LFlushBody(t) ==
  /\ LGoto(t, "FL_body", "idle")
  /\ locks' = LUnlock(lframe[t].d, t)
  /\ UNCHANGED notLock

\* Write, Truncate, Utimens, Chmod: the body under the exclusive lock
LExclusiveLock(t, d) ==
  /\ LCanLock(d) /\ LStart(t, "Write", d, NoItemL, "EX_body")
  /\ locks' = LLock(d, t)
  /\ UNCHANGED notLock
LExclusiveBody(t) ==
  /\ LGoto(t, "EX_body", "idle")
  /\ locks' = LUnlock(lframe[t].d, t)
  /\ UNCHANGED notLock

\* Read, Size, NLink (value receivers: the call copies *d, no lock), then the
\* body under the shared lock
LSharedCopy(t, d) ==
  /\ LStart(t, "Read", d, NoItemL, "SH_copy")
  /\ UNCHANGED locks
  /\ UNCHANGED notLock
LSharedRLock(t) ==
  /\ LGoto(t, "SH_copy", "SH_body") /\ LCanRLock(lframe[t].d)
  /\ locks' = LRLock(lframe[t].d, t)
  /\ UNCHANGED notLock
LSharedBody(t) ==
  /\ LGoto(t, "SH_body", "idle")
  /\ locks' = LRUnlock(lframe[t].d, t)
  /\ UNCHANGED notLock

NextLock ==
  \/ \E t \in Threads, d \in LockItems : LSetNameLock(t, d)
  \/ \E t \in Threads : LSetNameWrite(t)
  \/ \E t \in Threads, d \in LockItems : LNameCopy(t, d)
  \/ \E t \in Threads : LNameReturn(t)
  \/ \E t \in Threads, d \in LockItems, np \in LockItems : LSetParentLock(t, d, np)
  \/ \E t \in Threads : LSetParentID(t)
  \/ \E t \in Threads : LSetParentWrite(t)
  \/ \E t \in Threads, parent \in LockItems : LNewItemID(t, parent)
  \/ \E t \in Threads : LNewItemRLock(t)
  \/ \E t \in Threads : LNewItemBuild(t)
  \/ \E t \in Threads, op \in {"ID", "FetchContent"}, d \in LockItems, np \in LockItems,
        fast \in BOOLEAN : LIDSnapshot(t, op, d, np, fast)
  \/ \E t \in Threads : LIDPutCreated(t)
  \/ \E t \in Threads : LIDPutExists(t)
  \/ \E t \in Threads : LIDPutFailed(t)
  \/ \E t \in Threads, ok \in BOOLEAN : LIDUnsafe(t, ok)
  \/ \E t \in Threads : LIDCommitLock(t)
  \/ \E t \in Threads : LIDCommitStore(t)
  \/ \E t \in Threads, found \in BOOLEAN : LIDRecheck(t, found)
  \/ \E t \in Threads : LIDReturnHeld(t)
  \/ \E t \in Threads : LIDGetItem(t)
  \/ \E t \in Threads, ok \in BOOLEAN : LIDReturn(t, ok)
  \/ \E t \in Threads, ok \in BOOLEAN : LFetchGet(t, ok)
  \/ \E t \in Threads : LFetchLock(t)
  \/ \E t \in Threads : LFetchStore(t)
  \/ \E t \in Threads, d \in LockItems : LChildrenCheck(t, d)
  \/ \E t \in Threads, cached \in BOOLEAN : LChildrenBranch(t, cached)
  \/ \E t \in Threads, ok \in BOOLEAN : LChildrenGet(t, ok)
  \/ \E t \in Threads : LChildrenLock(t)
  \/ \E t \in Threads : LChildrenFill(t)
  \/ \E t \in Threads, d \in LockItems, np \in LockItems : LFlushLock(t, d, np)
  \/ \E t \in Threads : LFlushBody(t)
  \/ \E t \in Threads, d \in LockItems : LExclusiveLock(t, d)
  \/ \E t \in Threads : LExclusiveBody(t)
  \/ \E t \in Threads, d \in LockItems : LSharedCopy(t, d)
  \/ \E t \in Threads : LSharedRLock(t)
  \/ \E t \in Threads : LSharedBody(t)

\* the items whose lock thread t holds
Held(t) == {x \in LockItems : locks[x].writer = t \/ t \in locks[x].readers}

\* a transport call of thread t is in flight
InTransport(t) == lpc[t] \in {"ID_put", "ID_getitem", "GC_get", "FC_get"}

\* the item whose fields thread t is reading at its position
Reading(t) ==
  CASE lpc[t] \in {"N_copy", "SH_copy", "SH_body", "GC_check", "ID_ret_held",
                   "ND_build"} -> lframe[t].d
    [] lpc[t] \in {"SP_path", "FL_body"} -> lframe[t].np
    [] OTHER -> NoItemL

\* the item whose fields thread t is writing at its position
Writing(t) ==
  IF lpc[t] \in {"SN_write", "SP_path", "ID_store", "FC_store", "GC_fill",
                 "FL_body", "EX_body"}
  THEN lframe[t].d ELSE NoItemL

\* the lock thread t is waiting for at its position, and in which mode
Wants(t) ==
  CASE lpc[t] \in {"SP_id", "ID_unsafe"} -> [x |-> lframe[t].np, excl |-> FALSE]
    [] lpc[t] \in {"ND_rlock", "ID_recheck", "SH_copy"} -> [x |-> lframe[t].d, excl |-> FALSE]
    [] lpc[t] \in {"ID_commit", "FC_lock", "GC_lock"} -> [x |-> lframe[t].d, excl |-> TRUE]
    [] OTHER -> [x |-> NoItemL, excl |-> FALSE]

\* t waits for a lock that u holds
BlockedBy(t, u) ==
  /\ t # u /\ Wants(t).x # NoItemL
  /\ \/ locks[Wants(t).x].writer = u
     \/ Wants(t).excl /\ u \in locks[Wants(t).x].readers

\* ----------------------------------------------------------------- C15
\* C15: no thread has a transport call (placeholder Put, GetItem by path,
\* children listing Get, content Get) in flight while it holds the lock of
\* any item.
C15_NoTransportUnderLock == \A t \in Threads : InTransport(t) => Held(t) = {}

\* a lookup by path is in flight while another thread holds that item's lock
C15_Witness ==
  \E t \in Threads, u \in Threads :
    t # u /\ lpc[t] = "ID_getitem" /\ locks[lframe[t].d].writer = u

\* ----------------------------------------------------------------- C16
\* C16: in every interleaving a thread writing an item's fields holds that
\* item's lock exclusively, and a thread reading an item's fields holds
\* that item's lock (shared or exclusive).
C16_NoUnsyncAccess ==
  \A t \in Threads :
    /\ Writing(t) # NoItemL => locks[Writing(t)].writer = t
    /\ Reading(t) # NoItemL => Reading(t) \in Held(t)

\* ----------------------------------------------------------------- C20
\* C20: no reachable state has a set of started operations each of which
\* waits for an item lock that another operation of the set holds.
C20_NoDeadlock ==
  ~\E S \in SUBSET Threads :
     S # {} /\ \A t \in S : \E u \in S : BlockedBy(t, u)

\* ========================================================= specifications
\* Each specification runs one part of the item's interface; the state of
\* the other parts stays as constructed.
vars == <<bufVars, pathVars, idVars, chVars, lockVars>>

\* the content buffer and flush of one file item, under NThreads callers
StartBuf == InitBuf /\ InitPath /\ InitIDWith(TRUE, FALSE, "") /\ InitChWith(TRUE) /\ InitLock
SpecBuf == StartBuf /\ [][NextBuf]_vars

\* the content buffer with FetchContent, of an item made by NewDriveItem or
\* decoded from a listing
StartFetch ==
  /\ \E listed \in BOOLEAN, size \in 0..MaxBody :
       (~listed => size = 0) /\ InitBufWith(listed, size)
  /\ InitPath /\ InitIDWith(TRUE, FALSE, "") /\ InitChWith(TRUE) /\ InitLock
SpecFetch == StartFetch /\ [][NextBuf \/ NextFetch]_vars

\* the tree of items and their paths
StartPath == InitBuf /\ InitPath /\ InitIDWith(TRUE, FALSE, "") /\ InitChWith(TRUE) /\ InitLock
SpecPath == StartPath /\ [][NextPath]_vars

\* identity resolution of one item, under NThreads callers
StartID == InitBuf /\ InitPath /\ InitID /\ InitChWith(TRUE) /\ InitLock
SpecID == StartID /\ [][NextID]_vars

\* the children cache of one item, under NThreads callers
StartChildren == InitBuf /\ InitPath /\ InitIDWith(TRUE, FALSE, "") /\ InitCh /\ InitLock
SpecChildren == StartChildren /\ [][NextCh]_vars

\* the locks of the items of one tree, under NThreads callers
StartLock == InitBuf /\ InitPath /\ InitIDWith(TRUE, FALSE, "") /\ InitChWith(TRUE) /\ InitLock
SpecLock == StartLock /\ [][NextLock]_vars

====
